---- MODULE Spec2Model ----
(***************************************************************************)
(* Model of lib/atscppapi/src/utils_internal.cc: the binding of a host     *)
(* transaction handle to its Transaction object, the event router          *)
(* (handleTransactionEvents), the plugin dispatcher (invokePluginForEvent) *)
(* and the one-time hook registration.                                     *)
(***************************************************************************)
EXTENDS Integers, Sequences, FiniteSets, TLC

\* ---------------------------------------------------------------- bounds
\* Threads, besides those the host runs its transactions on, that call the
\* dispatcher of a per-transaction plugin.
NumDispatchers == 2
\* Per-transaction plugins registered on one Transaction object.
MaxPlugins == 2
\* Calls of the hook translators in one run.
MaxCalls == 2

\* Transaction handles (TSHttpTxn) in flight: two, so that two transactions
\* can be in the same global plugin.
Handles == {1, 2}
\* The host runs the hooks of transaction h on thread h.
FirstDispatcher == Cardinality(Handles) + 1
DispatcherThreads == {Cardinality(Handles) + d : d \in 1..NumDispatchers}
Threads == Handles \cup DispatcherThreads
GlobalPlugins == {"g1"}

\* ------------------------------------------------------ program constants
\* Objects are named by their addresses: the i-th Transaction object made for
\* handle h is <<h, i>>, the k-th plugin registered on it is <<h, i, k>>.
NULL == <<>>
\* A mutex nobody holds.
Unlocked == {}
MAX_TXN_ARG == 15
TRANSACTION_STORAGE_INDEX == MAX_TXN_ARG

\* The six events the router's continuation is registered for.
RouterEvents ==
  { "TS_EVENT_HTTP_POST_REMAP", "TS_EVENT_HTTP_SEND_REQUEST_HDR",
    "TS_EVENT_HTTP_READ_RESPONSE_HDR", "TS_EVENT_HTTP_SEND_RESPONSE_HDR",
    "TS_EVENT_HTTP_READ_CACHE_HDR", "TS_EVENT_HTTP_TXN_CLOSE" }

\* The ten events the dispatcher has a callback for.
PluginEvents ==
  { "TS_EVENT_HTTP_PRE_REMAP", "TS_EVENT_HTTP_POST_REMAP",
    "TS_EVENT_HTTP_SEND_REQUEST_HDR", "TS_EVENT_HTTP_READ_RESPONSE_HDR",
    "TS_EVENT_HTTP_SEND_RESPONSE_HDR", "TS_EVENT_HTTP_OS_DNS",
    "TS_EVENT_HTTP_READ_REQUEST_HDR", "TS_EVENT_HTTP_READ_CACHE_HDR",
    "TS_EVENT_HTTP_CACHE_LOOKUP_COMPLETE", "TS_EVENT_HTTP_SELECT_ALT" }

\* Event codes of the host that the dispatcher has no callback for.
OtherEvents == { "TS_EVENT_HTTP_TXN_CLOSE", "TS_EVENT_HTTP_TXN_START" }

VARIABLES
  txnArg,      \* txnArg[h][i]: the host's per-transaction slot i of handle h
  txns,        \* txns[h]: the Transaction objects made for handle h, in order
  tps,         \* tps[p]: the TransactionPlugin object at address p
  mutexOwner,  \* mutexOwner[p]: the threads holding the mutex of plugin p
  hstate,      \* hstate[h]: the host's delivery state for handle h
  pc,          \* pc[t]: position of thread t
  th,          \* th[t]: the locals of the call thread t is in
  trace,       \* trace[t]: the host calls and callbacks of that call, in order
  onceControl, \* setup_pthread_once_control of initTransactionManagement
  conts,       \* the continuations made by TSContCreate(handleTransactionEvents)
  hooks,       \* hooks[k]: the TSHttpHookAdd calls made for host hook k
  calls        \* the calls of the hook translators and of the leaf utilities
               \* (getHttpVersion, consumeFromTSIOBufferReader) so far, with results

txnVars == <<txnArg, txns, tps, mutexOwner, hstate, trace>>
onceVars == <<onceControl, conts, hooks>>
vars == <<txnArg, txns, tps, mutexOwner, hstate, pc, th, trace,
          onceControl, conts, hooks, calls>>

\* The hooks setupTransactionManagement adds the continuation to, in order.
SetupHooks ==
  << "TS_HTTP_POST_REMAP_HOOK", "TS_HTTP_SEND_REQUEST_HDR_HOOK",
     "TS_HTTP_READ_RESPONSE_HDR_HOOK", "TS_HTTP_SEND_RESPONSE_HDR_HOOK",
     "TS_HTTP_READ_CACHE_HDR_HOOK", "TS_HTTP_TXN_CLOSE_HOOK" >>

\* The host's hooks, each with the event it delivers to a continuation on it.
HookEvent ==
  [ TS_HTTP_POST_REMAP_HOOK |-> "TS_EVENT_HTTP_POST_REMAP",
    TS_HTTP_SEND_REQUEST_HDR_HOOK |-> "TS_EVENT_HTTP_SEND_REQUEST_HDR",
    TS_HTTP_READ_RESPONSE_HDR_HOOK |-> "TS_EVENT_HTTP_READ_RESPONSE_HDR",
    TS_HTTP_SEND_RESPONSE_HDR_HOOK |-> "TS_EVENT_HTTP_SEND_RESPONSE_HDR",
    TS_HTTP_READ_CACHE_HDR_HOOK |-> "TS_EVENT_HTTP_READ_CACHE_HDR",
    TS_HTTP_TXN_CLOSE_HOOK |-> "TS_EVENT_HTTP_TXN_CLOSE" ]
HostHooks == DOMAIN HookEvent

NoCall ==
  [op |-> "none", handle |-> 0, event |-> "none", plugin |-> NULL,
   gplugin |-> "none", transaction |-> NULL, iter |-> 0]

\* The Transaction object at address o.
Txn(o) == txns[o[1]][o[2]]
\* The addresses of the TransactionPlugin objects made so far.
PluginAddrs == DOMAIN tps

\* The process at its start: no transaction yet, nothing registered.
InitStart ==
  /\ txnArg = [h \in Handles |-> [i \in 0..MAX_TXN_ARG |-> NULL]]
  /\ txns = [h \in Handles |-> <<>>]
  /\ tps = <<>>
  /\ mutexOwner = <<>>
  /\ hstate = [h \in Handles |-> "ready"]
  /\ pc = [t \in Threads |-> "idle"]
  /\ th = [t \in Threads |-> NoCall]
  /\ trace = [t \in Threads |-> <<>>]
  /\ onceControl = "PTHREAD_ONCE_INIT"
  /\ conts = 0
  /\ hooks = [k \in HostHooks |-> 0]
  /\ calls = <<>>

\* The process once initTransactionManagement has run: the host delivers the
\* events of the hooks the continuation was added to.
Init ==
  /\ txnArg = [h \in Handles |-> [i \in 0..MAX_TXN_ARG |-> NULL]]
  /\ txns = [h \in Handles |-> <<>>]
  /\ tps = <<>>
  /\ mutexOwner = <<>>
  /\ hstate = [h \in Handles |-> "ready"]
  /\ pc = [t \in Threads |-> "idle"]
  /\ th = [t \in Threads |-> NoCall]
  /\ trace = [t \in Threads |-> <<>>]
  /\ onceControl = "done"
  /\ conts = 1
  /\ hooks = [k \in HostHooks |-> IF \E i \in DOMAIN SetupHooks : SetupHooks[i] = k
                                   THEN 1 ELSE 0]
  /\ calls = <<>>

\* ------------------------------------------------------------- helpers
Goto(t, l) == pc' = [pc EXCEPT ![t] = l]
Log(t, s) == trace' = [trace EXCEPT ![t] = @ \o s]

\* The process has ended: every thread is gone.
Aborted == [t \in Threads |-> "aborted"]

\* assert(false): a build with assertions ends the process, a build with
\* NDEBUG goes on to the statement after it.
AssertFalse(t, l) ==
  \E ndebug \in BOOLEAN : pc' = IF ndebug THEN [pc EXCEPT ![t] = l] ELSE Aborted

\* Where a call goes on after its getTransaction.
AfterGetTransaction(op) == IF op = "router" THEN "hte_switch" ELSE "cb_switch"

\* ------------------------------------------------------ getTransaction
\* Mutant: the slot is read at another index than the one it is written at.
GetTransactionRead_WrongIndex(t) ==
  /\ pc[t] = "gt_read"
  /\ LET o == txnArg[th[t].handle][TRANSACTION_STORAGE_INDEX - 1]
     IN /\ th' = [th EXCEPT ![t].transaction = o]
        /\ Goto(t, IF o = NULL THEN "gt_new" ELSE AfterGetTransaction(th[t].op))
  /\ Log(t, <<"TSHttpTxnArgGet">>)
  /\ UNCHANGED <<txnArg, txns, tps, mutexOwner, hstate, onceVars, calls>>

\* TSHttpTxnArgGet(ats_txn_handle, TRANSACTION_STORAGE_INDEX)
GetTransactionRead(t) ==
  /\ pc[t] = "gt_read"
  /\ LET o == txnArg[th[t].handle][TRANSACTION_STORAGE_INDEX]
     IN /\ th' = [th EXCEPT ![t].transaction = o]
        /\ Goto(t, IF o = NULL THEN "gt_new" ELSE AfterGetTransaction(th[t].op))
  /\ Log(t, <<"TSHttpTxnArgGet">>)
  /\ UNCHANGED <<txnArg, txns, tps, mutexOwner, hstate, onceVars, calls>>

\* if (!transaction) { new Transaction(handle); TSHttpTxnArgSet(...) }
GetTransactionNew(t) ==
  /\ pc[t] = "gt_new"
  /\ LET h == th[t].handle
         o == <<h, Len(txns[h]) + 1>>
     IN /\ txns' = [txns EXCEPT ![h] = Append(@, [handle |-> h, alive |-> TRUE,
                                                  deletes |-> 0, plugins |-> <<>>])]
        /\ txnArg' = [txnArg EXCEPT ![h][TRANSACTION_STORAGE_INDEX] = o]
        /\ th' = [th EXCEPT ![t].transaction = o]
  /\ Goto(t, AfterGetTransaction(th[t].op))
  /\ Log(t, <<"new Transaction", "TSHttpTxnArgSet">>)
  /\ UNCHANGED <<tps, mutexOwner, hstate, onceVars, calls>>

\* ----------------------------------------------- handleTransactionEvents
\* The host calls the continuation with one of its registered events. The host
\* delivers the hook events of one transaction one after the other, and none
\* after the close event.
HandleTransactionEventsCall(t, h, ev) ==
  /\ pc[t] = "idle"
  /\ t = h
  /\ conts > 0
  /\ \E k \in HostHooks : hooks[k] > 0 /\ HookEvent[k] = ev
  /\ hstate[h] = "ready"
  /\ hstate' = [hstate EXCEPT ![h] = "busy"]
  /\ th' = [th EXCEPT ![t] = [NoCall EXCEPT !.op = "router", !.handle = h,
                                            !.event = ev]]
  /\ Goto(t, "gt_read")
  /\ UNCHANGED <<txnArg, txns, tps, mutexOwner, trace, onceVars, calls>>

\* Mutant: the send-request and read-response cases do each other's work.
RouterBookkeeping_Swapped(ev) ==
  CASE ev = "TS_EVENT_HTTP_POST_REMAP" ->
         <<"getClientRequest().getUrl().reset", "TSHttpTxnClientReqGet">>
    [] ev = "TS_EVENT_HTTP_SEND_REQUEST_HDR" ->
         <<"initTransactionServerResponse">>
    [] ev = "TS_EVENT_HTTP_READ_RESPONSE_HDR" ->
         <<"initTransactionServerRequest">>
    [] ev = "TS_EVENT_HTTP_SEND_RESPONSE_HDR" ->
         <<"initTransactionClientResponse">>
    [] ev = "TS_EVENT_HTTP_READ_CACHE_HDR" ->
         <<"initTransactionCachedRequest", "initTransactionCachedResponse">>
    [] OTHER -> <<>>

\* The bookkeeping of the five non-terminal cases of the switch.
RouterBookkeeping(ev) ==
  CASE ev = "TS_EVENT_HTTP_POST_REMAP" ->
         <<"getClientRequest().getUrl().reset", "TSHttpTxnClientReqGet">>
    [] ev = "TS_EVENT_HTTP_SEND_REQUEST_HDR" ->
         <<"initTransactionServerRequest">>
    [] ev = "TS_EVENT_HTTP_READ_RESPONSE_HDR" ->
         <<"initTransactionServerResponse">>
    [] ev = "TS_EVENT_HTTP_SEND_RESPONSE_HDR" ->
         <<"initTransactionClientResponse">>
    [] ev = "TS_EVENT_HTTP_READ_CACHE_HDR" ->
         <<"initTransactionCachedRequest", "initTransactionCachedResponse">>
    [] OTHER -> <<>>

\* Mutant: the loop ends one plugin early.
CloseLoop_OffByOne(o, i) == IF i < Len(Txn(o).plugins) THEN "hte_lock" ELSE "hte_deltxn"

\* Where the close case goes with its iterator at position i of the list.
CloseLoop(o, i) == IF i <= Len(Txn(o).plugins) THEN "hte_lock" ELSE "hte_deltxn"

\* switch (event): the five bookkeeping cases, the start of the close case
\* (plugins.begin()), and the default case.
HandleTransactionEventsSwitch(t) ==
  /\ pc[t] = "hte_switch"
  /\ LET ev == th[t].event
         o == th[t].transaction
     IN IF ev = "TS_EVENT_HTTP_TXN_CLOSE"
        THEN /\ th' = [th EXCEPT ![t].iter = 1]
             /\ Goto(t, CloseLoop(o, 1))
             /\ UNCHANGED trace
        ELSE IF RouterBookkeeping(ev) # <<>>
        THEN /\ Log(t, RouterBookkeeping(ev))
             /\ Goto(t, "hte_reenable")
             /\ UNCHANGED th
        ELSE /\ UNCHANGED th
             /\ Log(t, <<"assert(false)">>)
             /\ AssertFalse(t, "hte_reenable")
  /\ UNCHANGED <<txnArg, txns, tps, mutexOwner, hstate, onceVars, calls>>

\* Mutant: the close case does not wait for the plugin's mutex.
HandleTransactionEventsLock_NoWait(t) ==
  /\ pc[t] = "hte_lock"
  /\ LET p == Txn(th[t].transaction).plugins[th[t].iter]
     IN mutexOwner' = [mutexOwner EXCEPT ![p] = {t}]
  /\ Goto(t, "hte_delete")
  /\ Log(t, <<"lock">>)
  /\ UNCHANGED <<txnArg, txns, tps, hstate, th, onceVars, calls>>

\* getTransactionPluginMutex(**iter); trans_mutex->lock()
HandleTransactionEventsLock(t) ==
  /\ pc[t] = "hte_lock"
  /\ LET p == Txn(th[t].transaction).plugins[th[t].iter]
     IN /\ mutexOwner[p] = Unlocked
        /\ mutexOwner' = [mutexOwner EXCEPT ![p] = {t}]
  /\ Goto(t, "hte_delete")
  /\ Log(t, <<"lock">>)
  /\ UNCHANGED <<txnArg, txns, tps, hstate, th, onceVars, calls>>

\* Mutant: the close case leaves the plugin it has locked undeleted.
HandleTransactionEventsDeletePlugin_Skips(t) ==
  /\ pc[t] = "hte_delete"
  /\ Goto(t, "hte_unlock")
  /\ UNCHANGED <<txnArg, txns, tps, mutexOwner, hstate, th, trace, onceVars, calls>>

\* delete *iter
HandleTransactionEventsDeletePlugin(t) ==
  /\ pc[t] = "hte_delete"
  /\ LET p == Txn(th[t].transaction).plugins[th[t].iter]
     IN tps' = [tps EXCEPT ![p].alive = FALSE, ![p].deletes = @ + 1]
  /\ Goto(t, "hte_unlock")
  /\ Log(t, <<"delete plugin">>)
  /\ UNCHANGED <<txnArg, txns, mutexOwner, hstate, th, onceVars, calls>>

\* Mutant: the close case goes to the next plugin without unlocking.
HandleTransactionEventsUnlock_KeepsLock(t) ==
  /\ pc[t] = "hte_unlock"
  /\ LET o == th[t].transaction
     IN /\ th' = [th EXCEPT ![t].iter = @ + 1]
        /\ Goto(t, CloseLoop(o, th[t].iter + 1))
  /\ UNCHANGED <<txnArg, txns, tps, mutexOwner, hstate, trace, onceVars, calls>>

\* trans_mutex->unlock(); ++iter
HandleTransactionEventsUnlock(t) ==
  /\ pc[t] = "hte_unlock"
  /\ LET o == th[t].transaction
         p == Txn(o).plugins[th[t].iter]
     IN /\ mutexOwner' = [mutexOwner EXCEPT ![p] = Unlocked]
        /\ th' = [th EXCEPT ![t].iter = @ + 1]
        /\ Goto(t, CloseLoop(o, th[t].iter + 1))
  /\ Log(t, <<"unlock">>)
  /\ UNCHANGED <<txnArg, txns, tps, hstate, onceVars, calls>>

\* Mutant: the close case empties the slot after deleting the object.
HandleTransactionEventsDeleteTransaction_ClearsSlot(t) ==
  /\ pc[t] = "hte_deltxn"
  /\ LET o == th[t].transaction
     IN /\ txns' = [txns EXCEPT ![o[1]][o[2]].alive = FALSE,
                                ![o[1]][o[2]].deletes = @ + 1]
        /\ txnArg' = [txnArg EXCEPT ![o[1]][TRANSACTION_STORAGE_INDEX] = NULL]
  /\ Goto(t, "hte_reenable")
  /\ Log(t, <<"delete transaction">>)
  /\ UNCHANGED <<tps, mutexOwner, hstate, th, onceVars, calls>>

\* delete &transaction
HandleTransactionEventsDeleteTransaction(t) ==
  /\ pc[t] = "hte_deltxn"
  /\ LET o == th[t].transaction
     IN txns' = [txns EXCEPT ![o[1]][o[2]].alive = FALSE,
                             ![o[1]][o[2]].deletes = @ + 1]
  /\ Goto(t, "hte_reenable")
  /\ Log(t, <<"delete transaction">>)
  /\ UNCHANGED <<txnArg, tps, mutexOwner, hstate, th, onceVars, calls>>

Reenable == "TSHttpTxnReenable(TS_EVENT_HTTP_CONTINUE)"

\* Mutant: the close case returns without re-enabling the transaction.
HandleTransactionEventsReenable_NotOnClose(t) ==
  /\ pc[t] = "hte_reenable"
  /\ hstate' = [hstate EXCEPT ![th[t].handle] =
                  IF th[t].event = "TS_EVENT_HTTP_TXN_CLOSE" THEN "closed"
                  ELSE "ready"]
  /\ Goto(t, "hte_done")
  /\ Log(t, IF th[t].event = "TS_EVENT_HTTP_TXN_CLOSE" THEN <<>> ELSE <<Reenable>>)
  /\ UNCHANGED <<txnArg, txns, tps, mutexOwner, th, onceVars, calls>>

\* TSHttpTxnReenable(ats_txn_handle, TS_EVENT_HTTP_CONTINUE): the host may go
\* on with the transaction, and ends it after the close event.
HandleTransactionEventsReenable(t) ==
  /\ pc[t] = "hte_reenable"
  /\ hstate' = [hstate EXCEPT ![th[t].handle] =
                  IF th[t].event = "TS_EVENT_HTTP_TXN_CLOSE" THEN "closed"
                  ELSE "ready"]
  /\ Goto(t, "hte_done")
  /\ Log(t, <<Reenable>>)
  /\ UNCHANGED <<txnArg, txns, tps, mutexOwner, th, onceVars, calls>>

\* return 0
HandleTransactionEventsReturn(t) ==
  /\ pc[t] = "hte_done"
  /\ Goto(t, "idle")
  /\ th' = [th EXCEPT ![t] = NoCall]
  /\ trace' = [trace EXCEPT ![t] = <<>>]
  /\ UNCHANGED <<txnArg, txns, tps, mutexOwner, hstate, onceVars, calls>>

\* ------------------------------------------------- invokePluginForEvent
\* Mutant: two cases of the switch call each other's callback.
PluginCallback_Swapped(ev) ==
  CASE ev = "TS_EVENT_HTTP_PRE_REMAP" -> "handleReadRequestHeadersPreRemap"
    [] ev = "TS_EVENT_HTTP_POST_REMAP" -> "handleReadRequestHeadersPostRemap"
    [] ev = "TS_EVENT_HTTP_SEND_REQUEST_HDR" -> "handleSendRequestHeaders"
    [] ev = "TS_EVENT_HTTP_READ_RESPONSE_HDR" -> "handleReadResponseHeaders"
    [] ev = "TS_EVENT_HTTP_SEND_RESPONSE_HDR" -> "handleSendResponseHeaders"
    [] ev = "TS_EVENT_HTTP_OS_DNS" -> "handleOsDns"
    [] ev = "TS_EVENT_HTTP_READ_REQUEST_HDR" -> "handleReadRequestHeaders"
    [] ev = "TS_EVENT_HTTP_READ_CACHE_HDR" -> "handleReadCacheLookupComplete"
    [] ev = "TS_EVENT_HTTP_CACHE_LOOKUP_COMPLETE" -> "handleReadCacheHeaders"
    [] ev = "TS_EVENT_HTTP_SELECT_ALT" -> "handleSelectAlt"
    [] OTHER -> "assert(false)"

\* The switch of invokePluginForEvent(Plugin *): the callback an event selects,
\* "assert(false)" for the default case.
PluginCallback(ev) ==
  CASE ev = "TS_EVENT_HTTP_PRE_REMAP" -> "handleReadRequestHeadersPreRemap"
    [] ev = "TS_EVENT_HTTP_POST_REMAP" -> "handleReadRequestHeadersPostRemap"
    [] ev = "TS_EVENT_HTTP_SEND_REQUEST_HDR" -> "handleSendRequestHeaders"
    [] ev = "TS_EVENT_HTTP_READ_RESPONSE_HDR" -> "handleReadResponseHeaders"
    [] ev = "TS_EVENT_HTTP_SEND_RESPONSE_HDR" -> "handleSendResponseHeaders"
    [] ev = "TS_EVENT_HTTP_OS_DNS" -> "handleOsDns"
    [] ev = "TS_EVENT_HTTP_READ_REQUEST_HDR" -> "handleReadRequestHeaders"
    [] ev = "TS_EVENT_HTTP_READ_CACHE_HDR" -> "handleReadCacheHeaders"
    [] ev = "TS_EVENT_HTTP_CACHE_LOOKUP_COMPLETE" -> "handleReadCacheLookupComplete"
    [] ev = "TS_EVENT_HTTP_SELECT_ALT" -> "handleSelectAlt"
    [] OTHER -> "assert(false)"

\* invokePluginForEvent(TransactionPlugin *plugin, ...): the caller holds a
\* pointer to a live plugin of the handle's transaction; the scoped lock takes
\* its copy of plugin->getMutex(). The caller is the plugin's hook, run by the
\* host in the transaction's sequence of events, or another thread.
InvokeTransactionPluginCall(t, p, ev) ==
  /\ pc[t] = "idle"
  /\ p \in PluginAddrs
  /\ tps[p].alive
  /\ IF t \in Handles
     THEN /\ t = Txn(tps[p].txn).handle
          /\ hstate[t] = "ready"
          /\ hstate' = [hstate EXCEPT ![t] = "busy"]
     ELSE UNCHANGED hstate
  /\ th' = [th EXCEPT ![t] = [NoCall EXCEPT !.op = "tplugin",
                                            !.handle = Txn(tps[p].txn).handle,
                                            !.event = ev, !.plugin = p]]
  /\ Goto(t, "tp_lock")
  /\ UNCHANGED <<txnArg, txns, tps, mutexOwner, trace, onceVars, calls>>

\* Mutant: the dispatcher does not wait for the plugin's mutex.
InvokeTransactionPluginLock_NoWait(t) ==
  /\ pc[t] = "tp_lock"
  /\ mutexOwner' = [mutexOwner EXCEPT ![th[t].plugin] = {t}]
  /\ Goto(t, "gt_read")
  /\ Log(t, <<"lock">>)
  /\ UNCHANGED <<txnArg, txns, tps, hstate, th, onceVars, calls>>

\* ScopedSharedMutexLock scopedLock(...): blocks until the mutex is free.
InvokeTransactionPluginLock(t) ==
  /\ pc[t] = "tp_lock"
  /\ mutexOwner[th[t].plugin] = Unlocked
  /\ mutexOwner' = [mutexOwner EXCEPT ![th[t].plugin] = {t}]
  /\ Goto(t, "gt_read")
  /\ Log(t, <<"lock">>)
  /\ UNCHANGED <<txnArg, txns, tps, hstate, th, onceVars, calls>>

\* Mutant: the dispatch to a global plugin waits while another transaction
\* is in that plugin or a per-transaction plugin's mutex is held.
InvokeGlobalPluginCall_Serialised(t, g, h, ev) ==
  /\ pc[t] = "idle"
  /\ t = h
  /\ hstate[h] = "ready"
  /\ \A u \in Threads : th[u].gplugin # g
  /\ \A p \in PluginAddrs : mutexOwner[p] = Unlocked
  /\ hstate' = [hstate EXCEPT ![h] = "busy"]
  /\ th' = [th EXCEPT ![t] = [NoCall EXCEPT !.op = "gplugin", !.handle = h,
                                            !.event = ev, !.gplugin = g]]
  /\ Goto(t, "gt_read")
  /\ UNCHANGED <<txnArg, txns, tps, mutexOwner, trace, onceVars, calls>>

\* invokePluginForEvent(GlobalPlugin *plugin, ...): the host runs the global
\* plugin's hook for a transaction in that transaction's sequence of events.
InvokeGlobalPluginCall(t, g, h, ev) ==
  /\ pc[t] = "idle"
  /\ t = h
  /\ hstate[h] = "ready"
  /\ hstate' = [hstate EXCEPT ![h] = "busy"]
  /\ th' = [th EXCEPT ![t] = [NoCall EXCEPT !.op = "gplugin", !.handle = h,
                                            !.event = ev, !.gplugin = g]]
  /\ Goto(t, "gt_read")
  /\ UNCHANGED <<txnArg, txns, tps, mutexOwner, trace, onceVars, calls>>

\* switch (event) of invokePluginForEvent(Plugin *): the call of the selected
\* callback, or the default case. A call through a pointer to a deleted plugin
\* is undefined: the process may end there, or the callback may run.
InvokePluginSwitch(t) ==
  /\ pc[t] = "cb_switch"
  /\ LET cb == PluginCallback(th[t].event)
         dangling == th[t].op = "tplugin" /\ ~tps[th[t].plugin].alive
     IN IF cb = "assert(false)"
        THEN /\ AssertFalse(t, "cb_done")
             /\ Log(t, <<"assert(false)">>)
        ELSE \E crash \in (IF dangling THEN BOOLEAN ELSE {FALSE}) :
               IF crash
               THEN pc' = Aborted /\ UNCHANGED trace
               ELSE Goto(t, "cb_run") /\ Log(t, <<cb>>)
  /\ UNCHANGED <<txnArg, txns, tps, mutexOwner, hstate, th, onceVars, calls>>

\* The callback returns.
PluginCallbackReturn(t) ==
  /\ pc[t] = "cb_run"
  /\ Goto(t, "cb_done")
  /\ UNCHANGED <<txnArg, txns, tps, mutexOwner, hstate, th, trace, onceVars, calls>>

\* Mutant: the dispatcher returns without releasing the plugin's mutex.
InvokeTransactionPluginReturn_NoUnlock(t) ==
  /\ pc[t] = "cb_done"
  /\ th[t].op = "tplugin"
  /\ hstate' = IF t \in Handles THEN [hstate EXCEPT ![t] = "ready"] ELSE hstate
  /\ Goto(t, "idle")
  /\ th' = [th EXCEPT ![t] = NoCall]
  /\ trace' = [trace EXCEPT ![t] = <<>>]
  /\ UNCHANGED <<txnArg, txns, tps, mutexOwner, onceVars, calls>>

\* ~ScopedSharedMutexLock, and the return to the caller.
InvokeTransactionPluginReturn(t) ==
  /\ pc[t] = "cb_done"
  /\ th[t].op = "tplugin"
  /\ mutexOwner' = [mutexOwner EXCEPT ![th[t].plugin] = Unlocked]
  /\ hstate' = IF t \in Handles THEN [hstate EXCEPT ![t] = "ready"] ELSE hstate
  /\ Goto(t, "idle")
  /\ th' = [th EXCEPT ![t] = NoCall]
  /\ trace' = [trace EXCEPT ![t] = <<>>]
  /\ UNCHANGED <<txnArg, txns, tps, onceVars, calls>>

\* The return to the global plugin's hook, which re-enables the transaction.
InvokeGlobalPluginReturn(t) ==
  /\ pc[t] = "cb_done"
  /\ th[t].op = "gplugin"
  /\ hstate' = [hstate EXCEPT ![th[t].handle] = "ready"]
  /\ Goto(t, "idle")
  /\ th' = [th EXCEPT ![t] = NoCall]
  /\ trace' = [trace EXCEPT ![t] = <<>>]
  /\ UNCHANGED <<txnArg, txns, tps, mutexOwner, onceVars, calls>>

\* A callback of a global plugin registers a new per-transaction plugin on the
\* transaction it was called with: transaction.addPlugin(new TransactionPlugin).
RegisterTransactionPlugin(t) ==
  /\ pc[t] = "cb_run"
  /\ th[t].op = "gplugin"
  /\ LET o == th[t].transaction
         p == Append(o, Len(Txn(o).plugins) + 1)
     IN /\ Txn(o).alive
        /\ Len(Txn(o).plugins) < MaxPlugins
        /\ tps' = (p :> [txn |-> o, alive |-> TRUE, deletes |-> 0]) @@ tps
        /\ mutexOwner' = (p :> Unlocked) @@ mutexOwner
        /\ txns' = [txns EXCEPT ![o[1]][o[2]].plugins = Append(@, p)]
  /\ UNCHANGED <<txnArg, hstate, pc, th, trace, onceVars, calls>>

\* -------------------------------------------- initTransactionManagement
\* A thread calls initTransactionManagement.
InitTransactionManagementCall(t) ==
  /\ pc[t] = "idle"
  /\ Goto(t, "init_once")
  /\ UNCHANGED <<txnVars, th, onceVars, calls>>

\* Mutant: a flag tested and set without pthread_once: every caller that does
\* not find the setup done runs it.
PthreadOnce_Racy(t) ==
  /\ pc[t] = "init_once"
  /\ IF onceControl # "done"
     THEN /\ onceControl' = "running"
          /\ Goto(t, "setup")
     ELSE /\ UNCHANGED onceControl
          /\ Goto(t, "init_done")
  /\ UNCHANGED <<txnVars, th, conts, hooks, calls>>

\* pthread_once(&setup_pthread_once_control, setupTransactionManagement): the
\* first caller runs the routine, a caller that finds it running waits for its
\* end, a caller that finds it done returns.
PthreadOnce(t) ==
  /\ pc[t] = "init_once"
  /\ onceControl # "running"
  /\ IF onceControl = "PTHREAD_ONCE_INIT"
     THEN /\ onceControl' = "running"
          /\ Goto(t, "setup")
     ELSE /\ UNCHANGED onceControl
          /\ Goto(t, "init_done")
  /\ UNCHANGED <<txnVars, th, conts, hooks, calls>>

\* TSCont cont = TSContCreate(handleTransactionEvents, mutex)
SetupContCreate(t) ==
  /\ pc[t] = "setup"
  /\ th[t].iter = 0
  /\ conts' = conts + 1
  /\ th' = [th EXCEPT ![t].iter = 1]
  /\ UNCHANGED <<txnVars, pc, onceControl, hooks, calls>>

\* The six TSHttpHookAdd(hook, cont) calls, in their order.
SetupHookAdd(t) ==
  /\ pc[t] = "setup"
  /\ th[t].iter \in DOMAIN SetupHooks
  /\ hooks' = [hooks EXCEPT ![SetupHooks[th[t].iter]] = @ + 1]
  /\ th' = [th EXCEPT ![t].iter = @ + 1]
  /\ UNCHANGED <<txnVars, pc, onceControl, conts, calls>>

\* setupTransactionManagement returns and pthread_once marks the control done.
SetupReturn(t) ==
  /\ pc[t] = "setup"
  /\ th[t].iter = Len(SetupHooks) + 1
  /\ onceControl' = "done"
  /\ th' = [th EXCEPT ![t] = NoCall]
  /\ Goto(t, "init_done")
  /\ UNCHANGED <<txnVars, conts, hooks, calls>>

\* initTransactionManagement returns to its caller.
InitTransactionManagementReturn(t) ==
  /\ pc[t] = "init_done"
  /\ Goto(t, "idle")
  /\ UNCHANGED <<txnVars, th, onceVars, calls>>

\* ---------------------------------------------------- hook translators
\* Plugin::HookType, and values of its type that are none of its enumerators.
HookTypes ==
  { "HOOK_READ_REQUEST_HEADERS_PRE_REMAP", "HOOK_READ_REQUEST_HEADERS_POST_REMAP",
    "HOOK_SEND_REQUEST_HEADERS", "HOOK_READ_RESPONSE_HEADERS",
    "HOOK_SEND_RESPONSE_HEADERS", "HOOK_OS_DNS", "HOOK_READ_REQUEST_HEADERS",
    "HOOK_READ_CACHE_HEADERS", "HOOK_CACHE_LOOKUP_COMPLETE", "HOOK_SELECT_ALT" }
UndefinedHookTypes == { "static_cast<HookType>(-1)", "static_cast<HookType>(10)" }

\* TransformationPlugin::Type, and values that are none of its enumerators.
TransformationTypes == { "REQUEST_TRANSFORMATION", "RESPONSE_TRANSFORMATION" }
UndefinedTransformationTypes == { "static_cast<Type>(-1)", "static_cast<Type>(2)" }

\* What the translators return after a failed assertion in a build without
\* assertions.
InvalidHookId == "static_cast<TSHttpHookID>(-1)"

\* Mutant: the post-remap and pre-remap cases return each other's hook.
ConvertInternalHookToTsHook_Swapped(hooktype) ==
  CASE hooktype = "HOOK_READ_REQUEST_HEADERS_POST_REMAP" -> "TS_HTTP_PRE_REMAP_HOOK"
    [] hooktype = "HOOK_READ_REQUEST_HEADERS_PRE_REMAP" -> "TS_HTTP_POST_REMAP_HOOK"
    [] hooktype = "HOOK_READ_RESPONSE_HEADERS" -> "TS_HTTP_READ_RESPONSE_HDR_HOOK"
    [] hooktype = "HOOK_SEND_REQUEST_HEADERS" -> "TS_HTTP_SEND_REQUEST_HDR_HOOK"
    [] hooktype = "HOOK_SEND_RESPONSE_HEADERS" -> "TS_HTTP_SEND_RESPONSE_HDR_HOOK"
    [] hooktype = "HOOK_OS_DNS" -> "TS_HTTP_OS_DNS_HOOK"
    [] hooktype = "HOOK_READ_REQUEST_HEADERS" -> "TS_HTTP_READ_REQUEST_HDR_HOOK"
    [] hooktype = "HOOK_READ_CACHE_HEADERS" -> "TS_HTTP_READ_CACHE_HDR_HOOK"
    [] hooktype = "HOOK_CACHE_LOOKUP_COMPLETE" -> "TS_HTTP_CACHE_LOOKUP_COMPLETE_HOOK"
    [] hooktype = "HOOK_SELECT_ALT" -> "TS_HTTP_SELECT_ALT_HOOK"
    [] OTHER -> "assert(false)"

\* switch (hooktype) of convertInternalHookToTsHook.
ConvertInternalHookToTsHook(hooktype) ==
  CASE hooktype = "HOOK_READ_REQUEST_HEADERS_POST_REMAP" -> "TS_HTTP_POST_REMAP_HOOK"
    [] hooktype = "HOOK_READ_REQUEST_HEADERS_PRE_REMAP" -> "TS_HTTP_PRE_REMAP_HOOK"
    [] hooktype = "HOOK_READ_RESPONSE_HEADERS" -> "TS_HTTP_READ_RESPONSE_HDR_HOOK"
    [] hooktype = "HOOK_SEND_REQUEST_HEADERS" -> "TS_HTTP_SEND_REQUEST_HDR_HOOK"
    [] hooktype = "HOOK_SEND_RESPONSE_HEADERS" -> "TS_HTTP_SEND_RESPONSE_HDR_HOOK"
    [] hooktype = "HOOK_OS_DNS" -> "TS_HTTP_OS_DNS_HOOK"
    [] hooktype = "HOOK_READ_REQUEST_HEADERS" -> "TS_HTTP_READ_REQUEST_HDR_HOOK"
    [] hooktype = "HOOK_READ_CACHE_HEADERS" -> "TS_HTTP_READ_CACHE_HDR_HOOK"
    [] hooktype = "HOOK_CACHE_LOOKUP_COMPLETE" -> "TS_HTTP_CACHE_LOOKUP_COMPLETE_HOOK"
    [] hooktype = "HOOK_SELECT_ALT" -> "TS_HTTP_SELECT_ALT_HOOK"
    [] OTHER -> "assert(false)"

\* switch (type) of convertInternalTransformationTypeToTsHook.
ConvertInternalTransformationTypeToTsHook(type) ==
  CASE type = "RESPONSE_TRANSFORMATION" -> "TS_HTTP_RESPONSE_TRANSFORM_HOOK"
    [] type = "REQUEST_TRANSFORMATION" -> "TS_HTTP_REQUEST_TRANSFORM_HOOK"
    [] OTHER -> "assert(false)"

\* A translator's call ends: with the hook its switch returns, or, from the
\* default case, with the end of the process (a build with assertions) or the
\* return after the switch (a build with NDEBUG).
TranslatorReturn(fn, arg, r) ==
  /\ Len(calls) < MaxCalls
  /\ pc # Aborted
  /\ \E ndebug \in (IF r = "assert(false)" THEN BOOLEAN ELSE {TRUE}) :
       /\ calls' = Append(calls,
            [fn |-> fn, arg |-> arg, asserted |-> (r = "assert(false)"),
             ret |-> IF r # "assert(false)" THEN r
                     ELSE IF ndebug THEN InvalidHookId ELSE "none"])
       /\ pc' = IF ndebug THEN pc ELSE Aborted
  /\ UNCHANGED <<txnVars, th, onceVars>>

ConvertInternalHookToTsHookCall(hooktype) ==
  TranslatorReturn("convertInternalHookToTsHook", hooktype,
                   ConvertInternalHookToTsHook(hooktype))

ConvertInternalTransformationTypeToTsHookCall(type) ==
  TranslatorReturn("convertInternalTransformationTypeToTsHook", type,
                   ConvertInternalTransformationTypeToTsHook(type))

\* ------------------------------------------------------- getHttpVersion
\* The host's error code (TSReturnCode).
TS_ERROR == -1
\* The largest major and minor number of the versions the host is asked for.
MaxVersionPart == 2

\* The host's encoding of a version in an int, and its two accessors.
TS_HTTP_VERSION(major, minor) == major * 65536 + minor
TS_HTTP_MAJOR(version) == (version \div 65536) % 65536
TS_HTTP_MINOR(version) == version % 65536

\* What TSHttpHdrVersionGet can return: the header's version, or TS_ERROR.
VersionQueryResults ==
  {TS_ERROR} \cup
  {TS_HTTP_VERSION(major, minor) : major, minor \in 0..MaxVersionPart}

\* Mutant: the test for 1.1 compares the minor number with 0, as that for 1.0.
GetHttpVersion_MinorZero(version) ==
  IF version # TS_ERROR
  THEN IF TS_HTTP_MAJOR(version) = 0 /\ TS_HTTP_MINOR(version) = 0
       THEN [ret |-> "HTTP_VERSION_0_9", log |-> <<>>]
       ELSE IF TS_HTTP_MAJOR(version) = 1 /\ TS_HTTP_MINOR(version) = 0
       THEN [ret |-> "HTTP_VERSION_1_0", log |-> <<>>]
       ELSE IF TS_HTTP_MAJOR(version) = 1 /\ TS_HTTP_MINOR(version) = 0
       THEN [ret |-> "HTTP_VERSION_1_1", log |-> <<>>]
       ELSE [ret |-> "HTTP_VERSION_UNKNOWN",
             log |-> <<"LOG_ERROR: Unrecognized version">>]
  ELSE [ret |-> "HTTP_VERSION_UNKNOWN",
        log |-> <<"LOG_ERROR: Could not get version">>]

\* getHttpVersion, from the int TSHttpHdrVersionGet returned: the value it
\* returns and what it logs.
GetHttpVersion(version) ==
  IF version # TS_ERROR
  THEN IF TS_HTTP_MAJOR(version) = 0 /\ TS_HTTP_MINOR(version) = 0
       THEN [ret |-> "HTTP_VERSION_0_9", log |-> <<>>]
       ELSE IF TS_HTTP_MAJOR(version) = 1 /\ TS_HTTP_MINOR(version) = 0
       THEN [ret |-> "HTTP_VERSION_1_0", log |-> <<>>]
       ELSE IF TS_HTTP_MAJOR(version) = 1 /\ TS_HTTP_MINOR(version) = 1
       THEN [ret |-> "HTTP_VERSION_1_1", log |-> <<>>]
       ELSE [ret |-> "HTTP_VERSION_UNKNOWN",
             log |-> <<"LOG_ERROR: Unrecognized version">>]
  ELSE [ret |-> "HTTP_VERSION_UNKNOWN",
        log |-> <<"LOG_ERROR: Could not get version">>]

\* A call of getHttpVersion on a header whose version query gives `version'.
GetHttpVersionCall(version) ==
  /\ Len(calls) < MaxCalls
  /\ pc # Aborted
  /\ calls' = Append(calls, [fn |-> "getHttpVersion", arg |-> version,
                             ret |-> GetHttpVersion(version).ret,
                             log |-> GetHttpVersion(version).log])
  /\ UNCHANGED <<txnVars, pc, th, onceVars>>

\* ------------------------------------------ consumeFromTSIOBufferReader
\* The blocks of a reader's chain, and the bytes a small block can hold.
MaxBlocks == 3
MaxBlockLen == 2
\* The readable length of a large part of a chain: 2^30 bytes.
BigBlockLen == 1073741824
BlockLens == (0..MaxBlockLen) \cup {BigBlockLen}
BlockBytes == {"a", "b"}

\* An int64_t value v is held as <<v \div 2^16, v % 2^16>>: the low word is
\* in 0..65535, the high word carries the sign. An int is a number.
Int64(i) == <<i \div 65536, i % 65536>>
Int64Add(v, w) ==
  <<v[1] + w[1] + ((v[2] + w[2]) \div 65536), (v[2] + w[2]) % 65536>>
\* The conversion of an int64_t value to int keeps its low 32 bits.
ToInt(v) ==
  LET h == v[1] % 65536
  IN (IF h >= 32768 THEN h - 65536 ELSE h) * 65536 + v[2]

\* A block of a reader holds len readable bytes, here all of one value; a
\* string is the sequence of its runs <<byte, length>> of equal bytes.
Blocks == [byte : BlockBytes, len : BlockLens]
\* The readers: the chains of up to MaxBlocks blocks, and whether the host's
\* availability query fails on the reader.
Readers ==
  [error : BOOLEAN, blocks : UNION {[1..n -> Blocks] : n \in 0..MaxBlocks}]

RECURSIVE ReadAvail(_, _)
\* The readable bytes of the blocks from the i-th on.
ReadAvail(blocks, i) ==
  IF i > Len(blocks) THEN Int64(0)
  ELSE Int64Add(Int64(blocks[i].len), ReadAvail(blocks, i + 1))

\* The host's TSIOBufferReaderAvail: an int64_t.
TSIOBufferReaderAvail(reader) ==
  IF reader.error THEN Int64(TS_ERROR) ELSE ReadAvail(reader.blocks, 1)

\* A call of the host made by the function.
HostCall(name, arg) == [call |-> name, arg |-> arg]

RECURSIVE ConsumeLoop(_, _, _, _, _)
\* while (block != NULL): the i-th block is read, appended to str and added to
\* the int consumed, and the loop goes on with TSIOBufferBlockNext(block).
ConsumeLoop(blocks, i, str, consumed, log) ==
  IF i > Len(blocks)
  THEN [str |-> str, consumed |-> consumed, log |-> log]
  ELSE LET data_len == blocks[i].len
       IN ConsumeLoop(blocks, i + 1,
            IF data_len > 0 THEN Append(str, <<blocks[i].byte, data_len>>)
            ELSE str,
            ToInt(Int64Add(Int64(consumed), Int64(data_len))),
            log \o << HostCall("TSIOBufferBlockReadStart", <<i>>),
                      HostCall("TSIOBufferBlockNext", <<i>>) >>)

\* Mutant: the result of the availability query is not tested for TS_ERROR.
ConsumeFromTSIOBufferReader_NoErrorTest(reader) ==
  LET avail == ToInt(TSIOBufferReaderAvail(reader))
      r == IF avail > 0
           THEN ConsumeLoop(reader.blocks, 1, <<>>, 0,
                            <<HostCall("TSIOBufferReaderStart", <<>>)>>)
           ELSE [str |-> <<>>, consumed |-> 0, log |-> <<>>]
  IN [ret |-> r.str,
      log |-> <<HostCall("TSIOBufferReaderAvail", <<>>)>> \o r.log
              \o <<HostCall("TSIOBufferReaderConsume", Int64(r.consumed))>>]

\* consumeFromTSIOBufferReader: the string it returns, and its calls of the
\* host and of the log, in order.
ConsumeFromTSIOBufferReader(reader) ==
  LET avail == ToInt(TSIOBufferReaderAvail(reader))
  IN IF avail # TS_ERROR
     THEN LET r == IF avail > 0
                   THEN ConsumeLoop(reader.blocks, 1, <<>>, 0,
                                    <<HostCall("TSIOBufferReaderStart", <<>>)>>)
                   ELSE [str |-> <<>>, consumed |-> 0, log |-> <<>>]
          IN [ret |-> r.str,
              log |-> <<HostCall("TSIOBufferReaderAvail", <<>>)>> \o r.log
                      \o <<HostCall("TSIOBufferReaderConsume", Int64(r.consumed))>>]
     ELSE [ret |-> <<>>,
           log |-> << HostCall("TSIOBufferReaderAvail", <<>>),
                      HostCall("LOG_ERROR", <<>>) >>]

\* A call of consumeFromTSIOBufferReader on a reader.
ConsumeFromTSIOBufferReaderCall(reader) ==
  /\ calls = <<>>
  /\ pc # Aborted
  /\ calls' = <<[fn |-> "consumeFromTSIOBufferReader", arg |-> reader,
                 ret |-> ConsumeFromTSIOBufferReader(reader).ret,
                 log |-> ConsumeFromTSIOBufferReader(reader).log]>>
  /\ UNCHANGED <<txnVars, pc, th, onceVars>>

\* ------------------------------------------------------- specification
\* The steps of the threads TT on the transactions HH, the host delivering the
\* router events RE and the dispatcher being called with the events PE.
Step(TT, HH, RE, PE) ==
  \/ \E t \in TT, h \in HH, ev \in RE : HandleTransactionEventsCall(t, h, ev)
  \/ \E t \in TT : GetTransactionRead(t)
  \/ \E t \in TT : GetTransactionNew(t)
  \/ \E t \in TT : HandleTransactionEventsSwitch(t)
  \/ \E t \in TT : HandleTransactionEventsLock(t)
  \/ \E t \in TT : HandleTransactionEventsDeletePlugin(t)
  \/ \E t \in TT : HandleTransactionEventsUnlock(t)
  \/ \E t \in TT : HandleTransactionEventsDeleteTransaction(t)
  \/ \E t \in TT : HandleTransactionEventsReenable(t)
  \/ \E t \in TT : HandleTransactionEventsReturn(t)
  \/ \E t \in TT, p \in PluginAddrs, ev \in PE :
       InvokeTransactionPluginCall(t, p, ev)
  \/ \E t \in TT : InvokeTransactionPluginLock(t)
  \/ \E t \in TT, g \in GlobalPlugins, h \in HH, ev \in PE :
       InvokeGlobalPluginCall(t, g, h, ev)
  \/ \E t \in TT : InvokePluginSwitch(t)
  \/ \E t \in TT : PluginCallbackReturn(t)
  \/ \E t \in TT : InvokeTransactionPluginReturn(t)
  \/ \E t \in TT : InvokeGlobalPluginReturn(t)
  \/ \E t \in TT : RegisterTransactionPlugin(t)

\* One transaction, the thread the host runs it on and the dispatcher threads.
Next ==
  Step({1} \cup DispatcherThreads, {1}, RouterEvents,
       {"TS_EVENT_HTTP_READ_RESPONSE_HDR"})

Spec == Init /\ [][Next]_vars

\* Two transactions on their two threads and one dispatcher thread.
NextGlobal ==
  Step(Handles \cup {FirstDispatcher}, Handles,
       {"TS_EVENT_HTTP_POST_REMAP", "TS_EVENT_HTTP_TXN_CLOSE"},
       {"TS_EVENT_HTTP_READ_RESPONSE_HDR"})

SpecGlobal == Init /\ [][NextGlobal]_vars

\* The thread the host runs transaction 1 on and two dispatcher threads: one
\* can hold a plugin's mutex while the other and the close case wait for it.
FairThreads == {1, FirstDispatcher, FirstDispatcher + 1}

\* The close event of that transaction, with global and per-transaction
\* plugins dispatched to before and during it.
NextClose ==
  Step(FairThreads, {1}, {"TS_EVENT_HTTP_TXN_CLOSE"},
       {"TS_EVENT_HTTP_READ_RESPONSE_HDR"})

\* The steps of thread t inside a call that wait for nothing: the thread is
\* scheduled, and a plugin's callback returns.
Proceed(t) ==
  \/ GetTransactionRead(t)
  \/ GetTransactionNew(t)
  \/ HandleTransactionEventsSwitch(t)
  \/ HandleTransactionEventsDeletePlugin(t)
  \/ HandleTransactionEventsUnlock(t)
  \/ HandleTransactionEventsDeleteTransaction(t)
  \/ HandleTransactionEventsReenable(t)
  \/ HandleTransactionEventsReturn(t)
  \/ InvokePluginSwitch(t)
  \/ PluginCallbackReturn(t)
  \/ InvokeTransactionPluginReturn(t)
  \/ InvokeGlobalPluginReturn(t)

\* Fair scheduling: a thread that can proceed does, and a thread waiting for a
\* mutex that is free again and again takes it. Nothing obliges the host or
\* another thread to start a call.
Fairness ==
  \A t \in FairThreads :
    /\ WF_vars(Proceed(t))
    /\ SF_vars(HandleTransactionEventsLock(t))
    /\ SF_vars(InvokeTransactionPluginLock(t))

\* The close of a transaction under fair scheduling.
SpecFair == Init /\ [][NextClose]_vars /\ Fairness

\* One transaction on its thread: every event code.
NextEvents == Step({1}, {1}, RouterEvents, PluginEvents \cup OtherEvents)

SpecEvents == Init /\ [][NextEvents]_vars

\* Every thread calls initTransactionManagement, any number of times.
NextOnce ==
  \/ \E t \in Threads : InitTransactionManagementCall(t)
  \/ \E t \in Threads : PthreadOnce(t)
  \/ \E t \in Threads : SetupContCreate(t)
  \/ \E t \in Threads : SetupHookAdd(t)
  \/ \E t \in Threads : SetupReturn(t)
  \/ \E t \in Threads : InitTransactionManagementReturn(t)

SpecOnce == InitStart /\ [][NextOnce]_vars

\* The hook translators, called with every value of their parameter types.
NextTranslate ==
  \/ \E hooktype \in HookTypes \cup UndefinedHookTypes :
       ConvertInternalHookToTsHookCall(hooktype)
  \/ \E type \in TransformationTypes \cup UndefinedTransformationTypes :
       ConvertInternalTransformationTypeToTsHookCall(type)

SpecTranslate == Init /\ [][NextTranslate]_vars

\* getHttpVersion, called on headers with every result of the version query.
NextVersion == \E version \in VersionQueryResults : GetHttpVersionCall(version)

SpecVersion == Init /\ [][NextVersion]_vars

\* consumeFromTSIOBufferReader, called on every reader.
NextDrain == \E reader \in Readers : ConsumeFromTSIOBufferReaderCall(reader)

SpecDrain == Init /\ [][NextDrain]_vars

\* ----------------------------------------------------------- properties
\* The reserved slot of handle h.
Slot(h) == txnArg[h][TRANSACTION_STORAGE_INDEX]
\* Thread t is inside a callback of per-transaction plugin p.
InCallback(t, p) == pc[t] = "cb_run" /\ th[t].op = "tplugin" /\ th[t].plugin = p
\* How often x occurs in the sequence s.
Count(s, x) == Cardinality({i \in DOMAIN s : s[i] = x})

C1_Step ==
  \A h \in Handles :
    /\ Slot(h) # NULL => Slot(h)' = Slot(h)
    /\ Len(txns'[h]) # Len(txns[h]) =>
          /\ Slot(h) = NULL
          /\ Len(txns'[h]) = Len(txns[h]) + 1
          /\ Slot(h)' = <<h, Len(txns'[h])>>
    /\ \A i \in 0..MAX_TXN_ARG :
          i # TRANSACTION_STORAGE_INDEX => txnArg'[h][i] = txnArg[h][i]
    /\ \A t \in Threads :
          th'[t].handle = h /\ th'[t].transaction # NULL =>
            th'[t].transaction = Slot(h)'

\* C1: every getTransaction(H) returns the same Transaction object: a step
\* creates an object for H only while H's reserved slot (index 15) is empty and
\* writes it there, a non-empty slot never changes, no other slot is written,
\* and every call that has resolved its transaction holds the slot's object.
C1_SameTransaction == [][C1_Step]_vars

\* Two calls on one handle hold the one object of its slot, which is alive.
C1_Witness ==
  \E t1, t2 \in Threads :
    /\ t1 # t2
    /\ th[t1].transaction # NULL
    /\ th[t1].transaction = th[t2].transaction
    /\ th[t1].op = "router" /\ th[t2].op = "tplugin"
    /\ Txn(th[t1].transaction).alive

\* C2: nothing is ever deleted twice, and once the close event of H has been
\* processed, the Transaction object of H and every plugin registered on it
\* have been deleted exactly once.
C2_DeletedExactlyOnce ==
  /\ \A h \in Handles : \A i \in DOMAIN txns[h] : txns[h][i].deletes <= 1
  /\ \A p \in PluginAddrs : tps[p].deletes <= 1
  /\ \A h \in Handles :
       hstate[h] = "closed" =>
         /\ Len(txns[h]) >= 1
         /\ \A i \in DOMAIN txns[h] :
              /\ txns[h][i].deletes = 1 /\ ~txns[h][i].alive
              /\ \A k \in DOMAIN txns[h][i].plugins :
                   LET p == txns[h][i].plugins[k]
                   IN tps[p].deletes = 1 /\ ~tps[p].alive
         /\ \A p \in PluginAddrs : p[1] = h => tps[p].deletes = 1

\* The close event has been processed for a transaction with two plugins.
C2_Witness ==
  \E h \in Handles :
    /\ hstate[h] = "closed"
    /\ Len(txns[h]) = 1
    /\ Len(txns[h][1].plugins) >= 2

C3_Step ==
  /\ \A p \in PluginAddrs :
       tps[p].alive /\ ~tps'[p].alive =>
         /\ \E t \in Threads : mutexOwner[p] = {t} /\ pc[t] = "hte_delete"
         /\ ~\E d \in Threads : InCallback(d, p)
  /\ \A d \in Threads :
       pc'[d] = "cb_run" /\ th'[d].op = "tplugin" =>
         mutexOwner'[th'[d].plugin] = {d}

\* C3: a plugin is deleted only by the close case holding the plugin's mutex
\* and only while no callback dispatched to that plugin is executing, and a
\* dispatched callback executes only while its dispatcher holds that mutex.
C3_DeleteNotDuringCallback == [][C3_Step]_vars

\* The close case waits for the mutex of a plugin whose callback is running.
C3_Witness ==
  \E t, d \in Threads :
    /\ pc[t] = "hte_lock"
    /\ InCallback(d, Txn(th[t].transaction).plugins[th[t].iter])

\* C4: at most one dispatched callback of a per-transaction plugin executes
\* at a time, and a thread that is in no call holds no plugin's mutex.
C4_OneCallbackAtATime ==
  /\ \A p \in PluginAddrs :
       Cardinality({t \in Threads : InCallback(t, p)}) <= 1
  /\ \A t \in Threads :
       pc[t] = "idle" => \A p \in PluginAddrs : t \notin mutexOwner[p]

\* One dispatcher is in a callback of a plugin, another waits for its mutex.
C4_Witness ==
  \E t1, t2 \in Threads :
    /\ InCallback(t1, th[t1].plugin)
    /\ pc[t2] = "tp_lock" /\ th[t2].plugin = th[t1].plugin

\* C5: a handle never has more than one Transaction object: no second one
\* while the first is alive, and none after the first has been deleted.
C5_AtMostOneTransaction ==
  \A h \in Handles :
    /\ Len(txns[h]) <= 1
    /\ Cardinality({i \in DOMAIN txns[h] : txns[h][i].alive}) <= 1

\* A dispatcher call has resolved the transaction of a closed handle: it got
\* the deleted object, and no second object was made.
C5_Witness ==
  \E t \in Threads :
    /\ pc[t] = "cb_switch"
    /\ hstate[th[t].handle] = "closed"
    /\ ~Txn(th[t].transaction).alive
    /\ Len(txns[th[t].handle]) = 1

\* The entries of getTransaction in a call's trace.
GetTransactionCalls == {"TSHttpTxnArgGet", "new Transaction", "TSHttpTxnArgSet"}

C6_Step ==
  /\ \A t \in Threads :
       th[t].op = "router" /\ th'[t].op # "router" =>
         /\ pc[t] = "hte_done"
         /\ th[t].event \in RouterEvents
         /\ Count(trace[t], Reenable) = 1
         /\ trace[t][Len(trace[t])] = Reenable
         /\ IF th[t].event = "TS_EVENT_HTTP_TXN_CLOSE"
            THEN /\ Count(trace[t], "delete transaction") = 1
                 /\ ~Txn(th[t].transaction).alive
            ELSE \E i \in 1..(Len(trace[t]) - 1) :
                   trace[t][i] \notin GetTransactionCalls
  /\ \A t \in Threads :
       pc'[t] \notin {"hte_done", "aborted"} => Count(trace'[t], Reenable) = 0

\* C6: a call of handleTransactionEvents for one of the six registered events
\* returns only after it has re-enabled the transaction with
\* TS_EVENT_HTTP_CONTINUE exactly once, as the last thing it does, after the
\* work of its case (for close: after the Transaction object was deleted).
C6_ReenabledOnce == [][C6_Step]_vars

\* The close event of a transaction with plugins is about to return.
C6_Witness ==
  \E t \in Threads :
    /\ pc[t] = "hte_done"
    /\ th[t].event = "TS_EVENT_HTTP_TXN_CLOSE"
    /\ Len(Txn(th[t].transaction).plugins) >= 1
    /\ ~Txn(th[t].transaction).alive

\* The setup has run, once.
SetupDoneOnce ==
  /\ conts = 1
  /\ \A k \in { "TS_HTTP_POST_REMAP_HOOK", "TS_HTTP_SEND_REQUEST_HDR_HOOK",
                 "TS_HTTP_READ_RESPONSE_HDR_HOOK", "TS_HTTP_SEND_RESPONSE_HDR_HOOK",
                 "TS_HTTP_READ_CACHE_HDR_HOOK", "TS_HTTP_TXN_CLOSE_HOOK" } :
       hooks[k] = 1

\* C7: whatever the threads calling initTransactionManagement, at most one
\* continuation is made and each hook is added at most once, by one thread at
\* a time, and when a caller has come back from pthread_once the continuation
\* and each of the six hooks have been registered exactly once.
C7_SetupOnce ==
  /\ conts <= 1
  /\ \A k \in HostHooks : hooks[k] <= 1
  /\ Cardinality({t \in Threads : pc[t] = "setup"}) <= 1
  /\ (\E t \in Threads : pc[t] = "init_done") => SetupDoneOnce
  /\ onceControl = "done" => SetupDoneOnce

\* Two callers are back from pthread_once at the same time.
C7_Witness ==
  \E t1, t2 \in Threads :
    t1 # t2 /\ pc[t1] = "init_done" /\ pc[t2] = "init_done" /\ SetupDoneOnce

\* The callback the dispatcher is to call for each event it knows.
ExpectedCallback ==
  [ TS_EVENT_HTTP_PRE_REMAP |-> "handleReadRequestHeadersPreRemap",
    TS_EVENT_HTTP_POST_REMAP |-> "handleReadRequestHeadersPostRemap",
    TS_EVENT_HTTP_SEND_REQUEST_HDR |-> "handleSendRequestHeaders",
    TS_EVENT_HTTP_READ_RESPONSE_HDR |-> "handleReadResponseHeaders",
    TS_EVENT_HTTP_SEND_RESPONSE_HDR |-> "handleSendResponseHeaders",
    TS_EVENT_HTTP_OS_DNS |-> "handleOsDns",
    TS_EVENT_HTTP_READ_REQUEST_HDR |-> "handleReadRequestHeaders",
    TS_EVENT_HTTP_READ_CACHE_HDR |-> "handleReadCacheHeaders",
    TS_EVENT_HTTP_CACHE_LOOKUP_COMPLETE |-> "handleReadCacheLookupComplete",
    TS_EVENT_HTTP_SELECT_ALT |-> "handleSelectAlt" ]
CallbackNames == {ExpectedCallback[e] : e \in DOMAIN ExpectedCallback}
\* The plugin callbacks a call has made, in order.
CallbacksOf(t) == SelectSeq(trace[t], LAMBDA x : x \in CallbackNames)
InDispatcher(t) == th[t].op \in {"tplugin", "gplugin"}

\* C8: a dispatcher call has resolved the handle's Transaction object through
\* the slot before it calls anything, calls exactly the one callback its event
\* selects, and for any other event calls none and takes the assertion.
C8_OneCallbackByEvent ==
  \A t \in Threads :
    InDispatcher(t) =>
      /\ pc[t] \in {"tp_lock", "gt_read", "gt_new", "cb_switch"} =>
           CallbacksOf(t) = <<>>
      /\ pc[t] \in {"cb_run", "cb_done"} /\ th[t].event \in DOMAIN ExpectedCallback =>
           /\ CallbacksOf(t) = <<ExpectedCallback[th[t].event]>>
           /\ Count(trace[t], "assert(false)") = 0
           /\ th[t].transaction # NULL
           /\ th[t].transaction = Slot(th[t].handle)
      /\ th[t].event \notin DOMAIN ExpectedCallback =>
           /\ CallbacksOf(t) = <<>>
           /\ pc[t] # "cb_run"
           /\ pc[t] \in {"cb_done", "aborted"} => Count(trace[t], "assert(false)") = 1

\* A per-transaction plugin's dispatch of the select-alternate event is done.
C8_Witness ==
  \E t \in Threads :
    /\ pc[t] = "cb_done"
    /\ th[t].op = "tplugin"
    /\ th[t].event = "TS_EVENT_HTTP_SELECT_ALT"
    /\ trace[t][Len(trace[t])] = "handleSelectAlt"

\* The steps of a dispatch to a global plugin after its call.
GlobalPluginStep(t) ==
  \/ GetTransactionRead(t)
  \/ GetTransactionNew(t)
  \/ InvokePluginSwitch(t)
  \/ PluginCallbackReturn(t)
  \/ InvokeGlobalPluginReturn(t)

\* C9: a dispatch to a global plugin takes no mutex and waits for none: the
\* thread in it holds no plugin's mutex and can always take its next step, and
\* the host can start one for any transaction that is ready for its next
\* event, whatever other transactions, dispatchers and close cases are doing.
C9_GlobalDispatchLockFree ==
  /\ \A t \in Threads :
       th[t].op = "gplugin" =>
         /\ \A p \in PluginAddrs : t \notin mutexOwner[p]
         /\ Count(trace[t], "lock") = 0
         /\ pc[t] # "aborted" => ENABLED GlobalPluginStep(t)
  /\ \A h \in Handles :
       pc[h] = "idle" /\ hstate[h] = "ready" =>
         \A g \in GlobalPlugins, ev \in PluginEvents :
           ENABLED InvokeGlobalPluginCall(h, g, h, ev)

\* Two transactions are inside callbacks of the same global plugin while a
\* dispatcher holds the mutex of a per-transaction plugin.
C9_Witness ==
  \E t1, t2 \in Threads :
    /\ t1 # t2
    /\ pc[t1] = "cb_run" /\ pc[t2] = "cb_run"
    /\ th[t1].op = "gplugin" /\ th[t2].op = "gplugin"
    /\ th[t1].gplugin = th[t2].gplugin
    /\ th[t1].handle # th[t2].handle
    /\ \E p \in PluginAddrs : mutexOwner[p] # Unlocked

\* The host hook each Plugin::HookType stands for.
ExpectedHook ==
  [ HOOK_READ_REQUEST_HEADERS_PRE_REMAP |-> "TS_HTTP_PRE_REMAP_HOOK",
    HOOK_READ_REQUEST_HEADERS_POST_REMAP |-> "TS_HTTP_POST_REMAP_HOOK",
    HOOK_SEND_REQUEST_HEADERS |-> "TS_HTTP_SEND_REQUEST_HDR_HOOK",
    HOOK_READ_RESPONSE_HEADERS |-> "TS_HTTP_READ_RESPONSE_HDR_HOOK",
    HOOK_SEND_RESPONSE_HEADERS |-> "TS_HTTP_SEND_RESPONSE_HDR_HOOK",
    HOOK_OS_DNS |-> "TS_HTTP_OS_DNS_HOOK",
    HOOK_READ_REQUEST_HEADERS |-> "TS_HTTP_READ_REQUEST_HDR_HOOK",
    HOOK_READ_CACHE_HEADERS |-> "TS_HTTP_READ_CACHE_HDR_HOOK",
    HOOK_CACHE_LOOKUP_COMPLETE |-> "TS_HTTP_CACHE_LOOKUP_COMPLETE_HOOK",
    HOOK_SELECT_ALT |-> "TS_HTTP_SELECT_ALT_HOOK" ]
\* The host hook each TransformationPlugin::Type stands for.
ExpectedTransformHook ==
  [ RESPONSE_TRANSFORMATION |-> "TS_HTTP_RESPONSE_TRANSFORM_HOOK",
    REQUEST_TRANSFORMATION |-> "TS_HTTP_REQUEST_TRANSFORM_HOOK" ]
ValidHookIds ==
  {ExpectedHook[k] : k \in DOMAIN ExpectedHook}
    \cup {ExpectedTransformHook[k] : k \in DOMAIN ExpectedTransformHook}
ExpectedOf(fn) ==
  IF fn = "convertInternalHookToTsHook" THEN ExpectedHook ELSE ExpectedTransformHook

\* C10: each translator returns, for a value of its enumeration, that value's
\* fixed host hook, the same on every call and different for different
\* values; for any other value it takes the assertion and returns no valid
\* hook identifier.
C10_HookTranslation ==
  /\ \A i \in DOMAIN calls :
       LET c == calls[i]
       IN IF c.arg \in DOMAIN ExpectedOf(c.fn)
          THEN ~c.asserted /\ c.ret = ExpectedOf(c.fn)[c.arg]
          ELSE c.asserted /\ c.ret \notin ValidHookIds
  /\ \A i, j \in DOMAIN calls :
       calls[i].fn = calls[j].fn /\ ~calls[i].asserted /\ ~calls[j].asserted =>
         (calls[i].arg = calls[j].arg <=> calls[i].ret = calls[j].ret)

\* A hook type was translated, and then a value outside the enumeration took
\* the assertion and the return after it.
C10_Witness ==
  /\ Len(calls) = 2
  /\ calls[1].fn = "convertInternalHookToTsHook"
  /\ calls[1].arg = "HOOK_READ_REQUEST_HEADERS_POST_REMAP"
  /\ calls[1].ret = "TS_HTTP_POST_REMAP_HOOK"
  /\ calls[2].arg \in UndefinedHookTypes
  /\ calls[2].asserted /\ calls[2].ret = InvalidHookId

\* The version each (major, minor) pair with a name stands for.
ExpectedVersion(major, minor) ==
  IF major = 0 /\ minor = 0 THEN "HTTP_VERSION_0_9"
  ELSE IF major = 1 /\ minor = 0 THEN "HTTP_VERSION_1_0"
  ELSE IF major = 1 /\ minor = 1 THEN "HTTP_VERSION_1_1"
  ELSE "HTTP_VERSION_UNKNOWN"

\* C11: getHttpVersion returns 0.9 for (0,0), 1.0 for (1,0), 1.1 for (1,1)
\* and logs nothing for them; for every other pair and for a failed version
\* query it returns HTTP_VERSION_UNKNOWN and logs one diagnostic; a call can be
\* made with every result of the query and never ends the process.
C11_HttpVersionMapping ==
  /\ \A i \in DOMAIN calls :
       LET c == calls[i]
       IN /\ c.fn = "getHttpVersion"
          /\ c.arg = TS_ERROR =>
               c.ret = "HTTP_VERSION_UNKNOWN" /\ Len(c.log) = 1
          /\ \A major, minor \in 0..(MaxVersionPart + 1) :
               c.arg = TS_HTTP_VERSION(major, minor) =>
                 /\ c.ret = ExpectedVersion(major, minor)
                 /\ Len(c.log) = IF c.ret = "HTTP_VERSION_UNKNOWN" THEN 1 ELSE 0
  /\ pc # Aborted
  /\ Len(calls) < MaxCalls =>
       \A version \in VersionQueryResults : ENABLED GetHttpVersionCall(version)

\* A 1.1 header was mapped, and then a 2.0 header gave unknown with a log.
C11_Witness ==
  /\ Len(calls) = 2
  /\ calls[1].arg = TS_HTTP_VERSION(1, 1) /\ calls[1].ret = "HTTP_VERSION_1_1"
  /\ calls[2].arg = TS_HTTP_VERSION(2, 0)
  /\ calls[2].ret = "HTTP_VERSION_UNKNOWN" /\ Len(calls[2].log) = 1

\* The calls of the host function `name' in a log, in order.
CallsOf(log, name) == SelectSeq(log, LAMBDA x : x.call = name)
\* The bytes of the blocks in block order, as runs.
BlocksConcatenated(blocks) ==
  LET nonempty == SelectSeq(blocks, LAMBDA b : b.len > 0)
  IN [i \in DOMAIN nonempty |-> <<nonempty[i].byte, nonempty[i].len>>]
RECURSIVE StringLength(_, _)
\* The length of the runs of str from the i-th on, as an int64_t.
StringLength(str, i) ==
  IF i > Len(str) THEN Int64(0)
  ELSE Int64Add(Int64(str[i][2]), StringLength(str, i + 1))

\* C12: when the availability query succeeds, consumeFromTSIOBufferReader
\* returns the bytes of all blocks in block order, reads every block of the
\* chain, once and in order, and then makes one TSIOBufferReaderConsume call,
\* its last call, with the length of the returned string.
C12_DrainsAllBlocks ==
  \A i \in DOMAIN calls :
    LET c == calls[i]
        reads == CallsOf(c.log, "TSIOBufferBlockReadStart")
        acks == CallsOf(c.log, "TSIOBufferReaderConsume")
    IN ~c.arg.error =>
         /\ c.ret = BlocksConcatenated(c.arg.blocks)
         /\ Len(reads) = Len(c.arg.blocks)
         /\ \A k \in DOMAIN reads : reads[k].arg = <<k>>
         /\ Len(acks) = 1
         /\ c.log[Len(c.log)].call = "TSIOBufferReaderConsume"
         /\ acks[1].arg = StringLength(c.ret, 1)

\* The query succeeded on a reader holding 2^31 bytes in two blocks, and the
\* call returned the empty string and acknowledged 0 bytes.
C12_Witness ==
  /\ Len(calls) = 1
  /\ ~calls[1].arg.error
  /\ ReadAvail(calls[1].arg.blocks, 1) = <<32768, 0>>
  /\ calls[1].ret = <<>>
  /\ CallsOf(calls[1].log, "TSIOBufferReaderConsume")
       = <<HostCall("TSIOBufferReaderConsume", Int64(0))>>

\* C13: when the availability query returns the error code, the function
\* returns the empty string, logs the condition, reads no block and makes no
\* TSIOBufferReaderConsume call: after the query it calls the log and nothing
\* else.
C13_ErrorLeavesReader ==
  \A i \in DOMAIN calls :
    LET c == calls[i]
    IN c.arg.error =>
         /\ c.ret = <<>>
         /\ c.log = << HostCall("TSIOBufferReaderAvail", <<>>),
                       HostCall("LOG_ERROR", <<>>) >>
         /\ CallsOf(c.log, "TSIOBufferBlockReadStart") = <<>>
         /\ CallsOf(c.log, "TSIOBufferReaderConsume") = <<>>

\* The query failed on a reader whose chain holds bytes.
C13_Witness ==
  /\ Len(calls) = 1
  /\ calls[1].arg.error
  /\ \E k \in DOMAIN calls[1].arg.blocks : calls[1].arg.blocks[k].len > 0
  /\ calls[1].ret = <<>>

\* C14: the Transaction object of a handle is deleted only after every plugin
\* registered on it: no deleted Transaction object has a live plugin.
C14_PluginsDeletedFirst ==
  \A h \in Handles : \A i \in DOMAIN txns[h] :
    ~txns[h][i].alive =>
      \A k \in DOMAIN txns[h][i].plugins : ~tps[txns[h][i].plugins[k]].alive

\* The close case has deleted a Transaction object that had two plugins, and a
\* dispatcher call on one of them has not returned yet.
C14_Witness ==
  \E t, d \in Threads :
    /\ pc[t] = "hte_reenable"
    /\ th[t].event = "TS_EVENT_HTTP_TXN_CLOSE"
    /\ ~Txn(th[t].transaction).alive
    /\ Len(Txn(th[t].transaction).plugins) = 2
    /\ th[d].op = "tplugin"

\* The plugin mutexes thread t holds.
HeldBy(t) == {p \in PluginAddrs : t \in mutexOwner[p]}

\* C15: the router holds at most one plugin mutex: while it deletes a plugin
\* and until it unlocks, the mutex of that plugin only; none when it is about
\* to lock the next plugin, all plugins before that one being deleted; and
\* none when it deletes the Transaction object or re-enables the transaction.
C15_OneMutexAtATime ==
  \A t \in Threads :
    th[t].op = "router" /\ pc[t] # "aborted" =>
      /\ Cardinality(HeldBy(t)) <= 1
      /\ pc[t] \in {"hte_delete", "hte_unlock"} =>
           HeldBy(t) = {Txn(th[t].transaction).plugins[th[t].iter]}
      /\ pc[t] = "hte_unlock" =>
           ~tps[Txn(th[t].transaction).plugins[th[t].iter]].alive
      /\ pc[t] \notin {"hte_delete", "hte_unlock"} => HeldBy(t) = {}
      /\ pc[t] \in {"hte_lock", "hte_deltxn"} =>
           \A k \in 1..(th[t].iter - 1) :
             ~tps[Txn(th[t].transaction).plugins[k]].alive

\* The router holds the mutex of the second plugin, the first being deleted
\* and its mutex taken by a dispatcher.
C15_Witness ==
  \E t, d \in Threads :
    /\ pc[t] = "hte_delete"
    /\ th[t].iter = 2
    /\ t # d
    /\ mutexOwner[Txn(th[t].transaction).plugins[1]] = {d}

\* The bookkeeping of each non-terminal event of the router.
ExpectedBookkeeping ==
  [ TS_EVENT_HTTP_POST_REMAP |->
      <<"getClientRequest().getUrl().reset", "TSHttpTxnClientReqGet">>,
    TS_EVENT_HTTP_SEND_REQUEST_HDR |-> <<"initTransactionServerRequest">>,
    TS_EVENT_HTTP_READ_RESPONSE_HDR |-> <<"initTransactionServerResponse">>,
    TS_EVENT_HTTP_SEND_RESPONSE_HDR |-> <<"initTransactionClientResponse">>,
    TS_EVENT_HTTP_READ_CACHE_HDR |->
      <<"initTransactionCachedRequest", "initTransactionCachedResponse">> ]

\* What a router call has done besides getTransaction and the re-enable.
WorkOf(t) ==
  SelectSeq(trace[t], LAMBDA x : x \notin GetTransactionCalls \cup {Reenable})

C16_Step ==
  /\ \A t \in Threads :
       th'[t].op = "router" /\ th'[t].event \in DOMAIN ExpectedBookkeeping =>
         /\ pc'[t] \in {"hte_reenable", "hte_done"} =>
              WorkOf(t)' = ExpectedBookkeeping[th'[t].event]
         /\ pc'[t] \in {"gt_read", "gt_new", "hte_switch"} => WorkOf(t)' = <<>>
         /\ HeldBy(t)' = {}
  /\ \A p \in PluginAddrs :
       tps[p].alive /\ ~tps'[p].alive =>
         \E t \in Threads : /\ pc[t] = "hte_delete" /\ pc'[t] = "hte_unlock"
                            /\ th[t].event = "TS_EVENT_HTTP_TXN_CLOSE"
  /\ \A h \in Handles : \A i \in DOMAIN txns[h] :
       txns[h][i].alive /\ ~txns'[h][i].alive =>
         \E t \in Threads : /\ pc[t] = "hte_deltxn" /\ pc'[t] = "hte_reenable"
                            /\ th[t].event = "TS_EVENT_HTTP_TXN_CLOSE"

\* C16: a router call for a non-terminal event does the bookkeeping of its
\* event on the handle's Transaction object, in the order of the code, and
\* nothing else: it takes no mutex, and every deletion of a plugin or of a
\* Transaction object is a step of a router call for the close event.
C16_BookkeepingOnly == [][C16_Step]_vars

\* The read-cache-headers event has done its work on a transaction with a
\* live plugin.
C16_Witness ==
  \E t \in Threads :
    /\ pc[t] = "hte_reenable"
    /\ th[t].event = "TS_EVENT_HTTP_READ_CACHE_HDR"
    /\ WorkOf(t) = <<"initTransactionCachedRequest", "initTransactionCachedResponse">>
    /\ Txn(th[t].transaction).alive
    /\ \E p \in PluginAddrs : tps[p].alive /\ tps[p].txn = th[t].transaction

\* C17: no callback runs on a deleted per-transaction plugin: a dispatcher in
\* a callback of plugin P finds P alive.
C17_NoCallbackOnDeletedPlugin ==
  \A t \in Threads : \A p \in PluginAddrs : InCallback(t, p) => tps[p].alive

\* A dispatcher that waited for the mutex of P while the close case deleted P
\* is in a callback of P.
C17_Witness ==
  \E t \in DispatcherThreads :
    /\ InCallback(t, th[t].plugin)
    /\ ~tps[th[t].plugin].alive
    /\ mutexOwner[th[t].plugin] = {t}

\* C18: the reserved slot of a handle never refers to a deleted Transaction
\* object, and a call that has got its transaction from getTransaction and
\* has not used it yet holds an object that is not deleted.
C18_SlotNotDangling ==
  /\ \A h \in Handles : Slot(h) # NULL => Txn(Slot(h)).alive
  /\ \A t \in Threads :
       pc[t] = "cb_switch" /\ trace[t][Len(trace[t])] = "TSHttpTxnArgGet" =>
         Txn(th[t].transaction).alive

\* The close case has deleted the Transaction object and has not re-enabled
\* the transaction yet; a dispatcher call has just got the deleted object from
\* getTransaction.
C18_Witness ==
  \E t, d \in Threads :
    /\ pc[t] = "hte_reenable" /\ th[t].event = "TS_EVENT_HTTP_TXN_CLOSE"
    /\ pc[d] = "cb_switch" /\ th[d].handle = th[t].handle
    /\ trace[d][Len(trace[d])] = "TSHttpTxnArgGet"
    /\ th[d].transaction = Slot(th[t].handle)
    /\ ~Txn(th[d].transaction).alive

\* C19: while a callback of a per-transaction plugin is executing, the
\* Transaction object it was given is not deleted, and the close case does not
\* reach its deletion.
C19_TransactionAliveInCallback ==
  \A t \in Threads : \A p \in PluginAddrs :
    InCallback(t, p) =>
      /\ Txn(th[t].transaction).alive
      /\ \A r \in Threads :
           /\ th[r].op = "router" /\ th[r].event = "TS_EVENT_HTTP_TXN_CLOSE"
           /\ th[r].transaction = th[t].transaction
           => pc[r] \notin {"hte_deltxn", "hte_reenable", "hte_done"}

\* A callback dispatched to a plugin is executing and the Transaction object
\* it was called with has been deleted.
C19_Witness ==
  \E t \in DispatcherThreads :
    /\ InCallback(t, th[t].plugin)
    /\ ~Txn(th[t].transaction).alive
    /\ Txn(th[t].transaction).deletes = 1

\* The close event of handle h is being handled.
CloseRunning(h) ==
  /\ th[h].op = "router" /\ th[h].event = "TS_EVENT_HTTP_TXN_CLOSE"
  /\ pc[h] # "aborted"
\* The close event of handle h has deleted everything and re-enabled.
CloseDone(h) ==
  /\ hstate[h] = "closed"
  /\ \A i \in DOMAIN txns[h] :
       /\ ~txns[h][i].alive
       /\ \A k \in DOMAIN txns[h][i].plugins : ~tps[txns[h][i].plugins[k]].alive
\* The process has ended.
ProcessEnded == pc = Aborted

====
